---- MODULE Spec2Model ----
(***************************************************************************)
(* A model of ansible-toolbox: the path translator, the assembly of the    *)
(* `docker run` argument list, and the launcher pipelines                  *)
(* (ansible_toolbox.__main__.main and ansible_toolbox.core.AnsibleToolbox).*)
(*                                                                         *)
(* Text.  A Python str is a sequence of atoms.  The atoms "/", " " and ":" *)
(* are the separators; every other atom is a maximal run of characters     *)
(* holding no separator, so two texts are the same str exactly when they   *)
(* are the same sequence.  Concatenation of str is \o.  (The tail of an    *)
(* error message is kept as one atom.)                                     *)
(***************************************************************************)
EXTENDS Integers, Sequences, FiniteSets, TLC

VARIABLES
    mode,       \* which entry point this behaviour exercises
    cwd,        \* os.getcwd(): the components of the working directory
    ids,        \* <<os.getuid(), os.getgid()>>
    path,       \* translate_path's argument (a text)
    translated, \* translate_path's outcome, None before the call
    impl,       \* "core": core.DockerRunner / core.AnsibleToolbox; "main": __main__
    args,       \* the parsed request (argparse.Namespace), None before parsing
    run_args,   \* the outcome of the run-argument assembly, None before it
    pc,         \* where the launcher stands
    DOCKER_BIN, \* shutil.which("docker"): the binary's path, or None
    argv,       \* the command line: its shape, --at-help, and the request it spells
    ops,        \* the container-runtime operations performed so far, in order
    tmp,        \* the temporary Dockerfile: None, or its path while it exists
    stdout,     \* what was printed to standard output
    stderr,     \* what was printed to standard error
    error,      \* the exception that ended the run, None if none
    exit_code,  \* the status passed to sys.exit, -1 while the process has not exited
    DOCKERFILE_TEMPLATE, \* the Dockerfile template (__main__: DOCKER_MANIFEST_MANIFEST_TEMPLATE)
    dockerfile, \* the outcome of the Dockerfile generation, None before it
    files,      \* the regular files of the host filesystem
    again,      \* the outcome of a second, identical call of the assembly, None before it
    procs,      \* simultaneous invocations: each one's position, operations, temporary file, error
    images      \* the runtime's local image store, which those invocations share

None == [kind |-> "None"]

----------------------------------------------------------------------------
(* Bounds *)

\* Longest path text handed to translate_path, in atoms.
MaxPathAtoms == 5

\* Most tokens of a command handed to the run-argument assembly.
MaxCommand == 2

\* Most --at-volume options, and most --at-env options, of a request.
MaxExtras == 2

\* The same two bounds for the requests a whole launcher run is given, and
\* the most --at-add-py-package options.
MaxRunCommand == 2

MaxRunExtras == 1

MaxPackages == 1

\* Most --at-add-py-package options of a request whose Dockerfile is generated.
MaxPackageList == 3

\* Most tokens of a command whose arguments are assembled twice.
MaxCallCommand == 2

\* Most invocations of the tool running at the same time.
MaxInvocations == 2

----------------------------------------------------------------------------
(* Text helpers *)

RECURSIVE Join(_, _)
\* sep.join(texts)
Join(sep, texts) ==
    IF texts = <<>> THEN <<>>
    ELSE IF Len(texts) = 1 THEN texts[1]
    ELSE texts[1] \o sep \o Join(sep, Tail(texts))

IsPrefix(s, t) == Len(s) <= Len(t) /\ SubSeq(t, 1, Len(s)) = s

Front(s) == SubSeq(s, 1, Len(s) - 1)

Last(s) == s[Len(s)]

Contains(s, e) == \E i \in 1..Len(s) : s[i] = e

\* All sequences over S of length at most n.
SeqsUpTo(S, n) == UNION { [1..k -> S] : k \in 0..n }

----------------------------------------------------------------------------
(* The host filesystem the process runs on.  A node is named by the        *)
(* components of its canonical absolute path.                              *)

Dirs == { <<>>, <<"proj">>, <<"proj", "roles">>, <<"etc">> }

Files == { <<"proj", "site.yml">>, <<"etc", "hosts">> }

\* Symbolic links, each to a canonical absolute directory: /proj/out -> /etc
\* leaves the workspace, /proj/in -> /proj/roles stays inside it.
LinkTarget ==
    (<<"proj", "out">> :> <<"etc">>) @@ (<<"proj", "in">> :> <<"proj", "roles">>)

Links == DOMAIN LinkTarget

\* The working directories a run may start in.
WorkDirs == { <<"proj">>, <<"proj", "roles">> }

\* The atoms path texts are made of.
PathAtoms ==
    { "/", "..", ".", "proj", "site.yml", "roles", "out", "in", "etc",
      "hosts", "ansible-playbook" }

RECURSIVE TextsOfLen(_)
\* The texts of n atoms.  Two component atoms never sit side by side in a
\* text: they would be one atom.
TextsOfLen(n) ==
    IF n = 0 THEN { <<>> }
    ELSE { Append(ta[1], ta[2]) :
             ta \in { x \in TextsOfLen(n - 1) \X PathAtoms :
                        x[1] = <<>> \/ x[1][Len(x[1])] = "/" \/ x[2] = "/" } }

PathTexts == UNION { TextsOfLen(n) : n \in 0..MaxPathAtoms }

----------------------------------------------------------------------------
(* pathlib *)

\* Path(text): the anchor and the components; empty and "." components are
\* dropped by the parser, ".." is kept.
PathOf(text) ==
    [ absolute |-> text # <<>> /\ text[1] = "/",
      parts    |-> SelectSeq(text, LAMBDA a : a # "/" /\ a # ".") ]

\* str(PurePosixPath) of an absolute path with these components.
StrAbs(parts) ==
    IF parts = <<>> THEN <<"/">>
    ELSE <<"/">> \o Join(<<"/">>, [i \in 1..Len(parts) |-> <<parts[i]>>])

RECURSIVE JoinRealPath(_, _)
\* os.path.realpath (non strict): ".." pops the resolved path, a component
\* that is a symbolic link is replaced by its target, anything else, existing
\* or not, is appended.
JoinRealPath(at, rest) ==
    IF rest = <<>> THEN at
    ELSE LET name == Head(rest)
             new  == Append(at, name)
         IN  IF name = ".."
             THEN JoinRealPath(IF at = <<>> THEN <<>> ELSE Front(at), Tail(rest))
             ELSE IF new \in Links
             THEN JoinRealPath(LinkTarget[new], Tail(rest))
             ELSE JoinRealPath(new, Tail(rest))

\* Path(text).resolve() with the process in directory wd.
Resolve(wd, text) ==
    LET p == PathOf(text)
    IN  JoinRealPath(IF p.absolute THEN <<>> ELSE JoinRealPath(<<>>, wd), p.parts)

RECURSIVE Walk(_, _)
\* The kernel's path walk behind os.stat: every component but the last must
\* lead to a directory; links are followed.  <<"ENOENT">> when the walk fails.
Walk(at, rest) ==
    IF rest = <<>> THEN <<"ok", at>>
    ELSE IF at \notin Dirs THEN <<"ENOENT">>
    ELSE LET name == Head(rest)
             new  == Append(at, name)
         IN  IF name = ".."
             THEN Walk(IF at = <<>> THEN <<>> ELSE Front(at), Tail(rest))
             ELSE IF new \in Links THEN Walk(LinkTarget[new], Tail(rest))
             ELSE IF new \in Dirs \cup files THEN Walk(new, Tail(rest))
             ELSE <<"ENOENT">>

\* Path(text).exists() with the process in directory wd.
Exists(wd, text) ==
    LET p == PathOf(text)
    IN  Walk(IF p.absolute THEN <<>> ELSE wd, p.parts)[1] = "ok"

----------------------------------------------------------------------------
(* core.translate_path *)

OutsideMessage == "is outside the current workspace and cannot be accessed in the container"

Returned(v) == [kind |-> "return", value |-> v]

Raised(e, m) == [kind |-> "raise", error |-> e, message |-> m]

\* PurePath.relative_to: the components of abs below base; base must be a
\* prefix of abs, component by component.
relative_to(abs, base) ==
    IF IsPrefix(base, abs)
    THEN Returned(SubSeq(abs, Len(base) + 1, Len(abs)))
    ELSE Raised("ValueError", <<>>)

\* "/workspace" + "/" + str(relative_path): string pasting instead of a Path join.
translate_path_pastes(wd, text) ==
    LET abs_path == Resolve(wd, text)
        workspace_path == Resolve(wd, StrAbs(wd))
        relative_path == relative_to(abs_path, workspace_path)
    IN  IF relative_path.kind = "return"
        THEN Returned(<<"/", "workspace", "/">> \o
                (IF relative_path.value = <<>> THEN <<".">>
                 ELSE Tail(StrAbs(relative_path.value))))
        ELSE Raised("ValueError", <<"Path", " ">> \o text \o <<" ", OutsideMessage>>)

RECURSIVE LexicalJoin(_, _)
\* os.path.normpath: ".." pops the path as written, no link is followed.
LexicalJoin(at, rest) ==
    IF rest = <<>> THEN at
    ELSE IF Head(rest) = ".."
    THEN LexicalJoin(IF at = <<>> THEN <<>> ELSE Front(at), Tail(rest))
    ELSE LexicalJoin(Append(at, Head(rest)), Tail(rest))

\* The path made absolute and normalised as written instead of resolved.
translate_path_lexical(wd, text) ==
    LET p == PathOf(text)
        abs_path == LexicalJoin(IF p.absolute THEN <<>> ELSE wd, p.parts)
        relative_path == relative_to(abs_path, wd)
    IN  IF relative_path.kind = "return"
        THEN Returned(StrAbs(<<"workspace">> \o relative_path.value))
        ELSE Raised("ValueError", <<"Path", " ">> \o text \o <<" ", OutsideMessage>>)

\* relative_to's ValueError swallowed: every path is translated.
translate_path_drops_check(wd, text) ==
    LET abs_path == Resolve(wd, text)
        workspace_path == Resolve(wd, StrAbs(wd))
    IN  Returned(StrAbs(<<"workspace">> \o
            SubSeq(abs_path, Len(workspace_path) + 1, Len(abs_path))))

translate_path(wd, text) ==
    LET abs_path == Resolve(wd, text)
        workspace_path == Resolve(wd, StrAbs(wd))
        relative_path == relative_to(abs_path, workspace_path)
    IN  IF relative_path.kind = "return"
        THEN Returned(StrAbs(<<"workspace">> \o relative_path.value))
        ELSE Raised("ValueError", <<"Path", " ">> \o text \o <<" ", OutsideMessage>>)

----------------------------------------------------------------------------
(* Run-argument assembly: core.DockerRunner.prepare_run_args and           *)
(* __main__.prepare_arguments                                              *)

DEFAULT_IMAGE_NAME == <<"ansible-toolbox", ":", "latest">>

\* shutil.which("docker") when the runtime is installed.
DockerPath == <<"/", "usr", "/", "bin", "/", "docker">>

BinSh == <<"/", "bin", "/", "sh">>

\* The block with the workspace mounted read-write and SETGID kept.
FixedArgsLax(wd, ug) ==
    << <<"--rm">>,
       <<"--name">>, <<"ansible-toolbox">>,
       <<"--network">>, <<"host">>,
       <<"--user">>, <<ToString(ug[1]), ":", ToString(ug[2])>>,
       <<"--cap-drop">>, <<"NET_BIND_SERVICE">>,
       <<"--cap-drop">>, <<"SETUID">>,
       <<"--security-opt">>, <<"no-new-privileges">>,
       <<"-v">>, <<"/", "etc", "/", "passwd", ":", "/", "etc", "/", "passwd", ":", "ro,z">>,
       <<"-v">>, <<"/", "etc", "/", "group", ":", "/", "etc", "/", "group", ":", "ro,z">>,
       <<"-v">>, <<"/", "tmp", ":", "/", "tmp", ":", "z">>,
       <<"-v">>, <<"/", "var", "/", "tmp", ":", "/", "var", "/", "tmp", ":", "z">>,
       <<"-v">>, StrAbs(wd) \o <<":", "/", "workspace", ":", "z">>,
       <<"-e">>, <<"HOME=", "/", "tmp">>,
       <<"-e">>, <<"TERM=xterm-256color">>,
       <<"-e">>, <<"ANSIBLE_LOCAL_TEMP=", "/", "tmp">>,
       <<"-e">>, <<"ANSIBLE_REMOTE_TEMP=", "/", "tmp", "/", "$(whoami)">>,
       <<"-e">>, <<"ANSIBLE_STDOUT_CALLBACK=debug">>,
       <<"-e">>, <<"ANSIBLE_CONFIG=", "/", "workspace", "/", "ansible.cfg">>,
       <<"-e">>, <<"ANSIBLE_FORCE_COLOR=1">> >>

\* The literal block both assemblies add after [binary, "run"(, "-it")].
FixedArgs(wd, ug) ==
    << <<"--rm">>,
       <<"--name">>, <<"ansible-toolbox">>,
       <<"--network">>, <<"host">>,
       <<"--user">>, <<ToString(ug[1]), ":", ToString(ug[2])>>,
       <<"--cap-drop">>, <<"NET_BIND_SERVICE">>,
       <<"--cap-drop">>, <<"SETUID">>,
       <<"--cap-drop">>, <<"SETGID">>,
       <<"--security-opt">>, <<"no-new-privileges">>,
       <<"-v">>, <<"/", "etc", "/", "passwd", ":", "/", "etc", "/", "passwd", ":", "ro,z">>,
       <<"-v">>, <<"/", "etc", "/", "group", ":", "/", "etc", "/", "group", ":", "ro,z">>,
       <<"-v">>, <<"/", "tmp", ":", "/", "tmp", ":", "z">>,
       <<"-v">>, <<"/", "var", "/", "tmp", ":", "/", "var", "/", "tmp", ":", "z">>,
       <<"-v">>, StrAbs(wd) \o <<":", "/", "workspace", ":", "ro,z">>,
       <<"-e">>, <<"HOME=", "/", "tmp">>,
       <<"-e">>, <<"TERM=xterm-256color">>,
       <<"-e">>, <<"ANSIBLE_LOCAL_TEMP=", "/", "tmp">>,
       <<"-e">>, <<"ANSIBLE_REMOTE_TEMP=", "/", "tmp", "/", "$(whoami)">>,
       <<"-e">>, <<"ANSIBLE_STDOUT_CALLBACK=debug">>,
       <<"-e">>, <<"ANSIBLE_CONFIG=", "/", "workspace", "/", "ansible.cfg">>,
       <<"-e">>, <<"ANSIBLE_FORCE_COLOR=1">> >>

RECURSIVE TranslateCommandSkips(_, _)
\* The ValueError caught per token: a token that cannot be translated is left out.
TranslateCommandSkips(wd, command) ==
    IF command = <<>> THEN Returned(<<>>)
    ELSE LET arg   == Head(command)
             first == IF Exists(wd, arg) THEN translate_path(wd, arg) ELSE Returned(arg)
             rest  == TranslateCommandSkips(wd, Tail(command))
         IN  IF first.kind = "raise" THEN rest
             ELSE Returned(<<first.value>> \o rest.value)

RECURSIVE TranslateCommandAll(_, _)
\* The `if Path(arg).exists()` test lost: every token is translated.
TranslateCommandAll(wd, command) ==
    IF command = <<>> THEN Returned(<<>>)
    ELSE LET first == translate_path(wd, Head(command))
             rest  == TranslateCommandAll(wd, Tail(command))
         IN  IF first.kind = "raise" THEN first
             ELSE IF rest.kind = "raise" THEN rest
             ELSE Returned(<<first.value>> \o rest.value)

RECURSIVE TranslateCommand(_, _)
\* [translate_path(arg) if Path(arg).exists() else arg for arg in command]:
\* the list of translated tokens, or the first ValueError translate_path raises.
TranslateCommand(wd, command) ==
    IF command = <<>> THEN Returned(<<>>)
    ELSE LET arg   == Head(command)
             first == IF Exists(wd, arg) THEN translate_path(wd, arg) ELSE Returned(arg)
             rest  == TranslateCommand(wd, Tail(command))
         IN  IF first.kind = "raise" THEN first
             ELSE IF rest.kind = "raise" THEN rest
             ELSE Returned(<<first.value>> \o rest.value)

\* "cd /workspace && " + " ".join(tokens)
Script(tokens) == <<"cd", " ", "/", "workspace", " ", "&&", " ">> \o Join(<<" ">>, tokens)

RECURSIVE FlaggedOnce(_, _)
\* Each distinct item once: a repeated item is dropped.
FlaggedOnce(flag, items) ==
    IF items = <<>> THEN <<>>
    ELSE (IF Contains(Tail(items), Head(items)) THEN <<>>
          ELSE << <<flag, " ">> \o Head(items) >>) \o FlaggedOnce(flag, Tail(items))

RECURSIVE Flagged(_, _)
\* core: one element f"{flag} {x}" per item.
Flagged(flag, items) ==
    IF items = <<>> THEN <<>>
    ELSE << <<flag, " ">> \o Head(items) >> \o Flagged(flag, Tail(items))

RECURSIVE FlagPairs(_, _)
\* __main__: the two elements flag, x per item.
FlagPairs(flag, items) ==
    IF items = <<>> THEN <<>>
    ELSE << <<flag>>, Head(items) >> \o FlagPairs(flag, Tail(items))

\* The `if not interactive` guard lost: the script is appended in both modes.
prepare_run_args_always_script(wd, ug, binary, command, interactive, volumes, env_vars) ==
    LET cmd == << binary, <<"run">> >>
                 \o (IF interactive THEN << <<"-it">> >> ELSE <<>>)
                 \o FixedArgs(wd, ug)
                 \o Flagged("-v", volumes)
                 \o Flagged("-e", env_vars)
                 \o << DEFAULT_IMAGE_NAME, BinSh >>
        translated_cmd == TranslateCommand(wd, command)
    IN  IF translated_cmd.kind = "raise" THEN translated_cmd
        ELSE Returned(cmd \o << <<"-c">>, Script(translated_cmd.value) >>)

\* The tokens translated before the mode is looked at: a token outside the
\* working directory fails the call in either mode.
prepare_run_args_checks_first(wd, ug, binary, command, interactive, volumes, env_vars) ==
    LET cmd == << binary, <<"run">> >>
                 \o (IF interactive THEN << <<"-it">> >> ELSE <<>>)
                 \o FixedArgs(wd, ug)
                 \o Flagged("-v", volumes)
                 \o Flagged("-e", env_vars)
                 \o << DEFAULT_IMAGE_NAME, BinSh >>
        translated_cmd == TranslateCommand(wd, command)
    IN  IF translated_cmd.kind = "raise" THEN translated_cmd
        ELSE IF interactive THEN Returned(cmd)
        ELSE Returned(cmd \o << <<"-c">>, Script(translated_cmd.value) >>)

\* core.DockerRunner.prepare_run_args(command, interactive=, volumes=, env_vars=)
prepare_run_args(wd, ug, binary, command, interactive, volumes, env_vars) ==
    LET cmd == << binary, <<"run">> >>
                 \o (IF interactive THEN << <<"-it">> >> ELSE <<>>)
                 \o FixedArgs(wd, ug)
                 \o Flagged("-v", volumes)
                 \o Flagged("-e", env_vars)
                 \o << DEFAULT_IMAGE_NAME, BinSh >>
        translated_cmd == TranslateCommand(wd, command)
    IN  IF interactive THEN Returned(cmd)
        ELSE IF translated_cmd.kind = "raise" THEN translated_cmd
        ELSE Returned(cmd \o << <<"-c">>, Script(translated_cmd.value) >>)

\* __main__.prepare_arguments(arguments, interactive=, extra_volumes=, extra_envs=)
prepare_arguments(wd, ug, arguments, interactive, extra_volumes, extra_envs) ==
    LET docker_cmd == << <<"docker">>, <<"run">> >>
                 \o (IF interactive THEN << <<"-it">> >> ELSE <<>>)
                 \o FixedArgs(wd, ug)
                 \o FlagPairs("-v", extra_volumes)
                 \o FlagPairs("-e", extra_envs)
                 \o << <<"ansible-toolbox", ":", "latest">>, BinSh >>
        translated_args == TranslateCommand(wd, arguments)
    IN  IF interactive THEN Returned(docker_cmd)
        ELSE IF translated_args.kind = "raise" THEN translated_args
        ELSE Returned(docker_cmd \o << <<"-c">>, Script(translated_args.value) >>)

\* The assembly of the implementation at hand.
Assemble(im, wd, ug, request) ==
    IF im = "core"
    THEN prepare_run_args(wd, ug, DockerPath, request.command, request.interactive,
                          request.volumes, request.envs)
    ELSE prepare_arguments(wd, ug, request.command, request.interactive,
                           request.volumes, request.envs)

----------------------------------------------------------------------------
(* Dockerfile generation.  A template is the sequence of the pieces        *)
(* string.Template's pattern finds in it: literal text, a named            *)
(* placeholder (%name), or a delimiter no identifier follows.  The shipped *)
(* template's literal text before and after its one placeholder is kept as *)
(* one atom each.                                                          *)

DEFAULT_PYTHON_PACKAGES == << <<"requests==2.32.3">>, <<"docker==7.1.0">> >>

\* __main__'s own list: its last entry ends with a blank.
MAIN_DEFAULT_PYTHON_PACKAGES == << <<"requests==2.32.3">>, <<"docker==7.1.0", " ">> >>

TemplateHead == "FROM docker.io/alpine:latest ... && pip install --no-cache-dir ansible"

TemplateTail == "\\ && rm -rf /tmp/* /var/cache/apk/* /root/.cache"

Literal(atom) == [kind |-> "literal", text |-> <<atom>>]

Named(name) == [kind |-> "named", name |-> name]

Invalid == [kind |-> "invalid"]

\* config.DOCKERFILE_TEMPLATE and __main__.DOCKER_MANIFEST_MANIFEST_TEMPLATE
ShippedTemplate ==
    << Literal(TemplateHead), Literal(" "), Named("additional_packages"),
       Literal(" "), Literal(TemplateTail) >>

\* The templates Dockerfile generation is exercised with: the shipped one,
\* one with a stray delimiter after the placeholder, one with a second
\* placeholder the code passes no value for, and the empty one.
Templates ==
    { ShippedTemplate,
      << Literal(TemplateHead), Literal(" "), Named("additional_packages"),
         Literal(" "), Invalid, Literal(TemplateTail) >>,
      << Literal(TemplateHead), Literal(" "), Named("additional_packages"),
         Literal(" "), Named("version"), Literal(TemplateTail) >>,
      << >> }

RECURSIVE substitute(_, _)
\* string.Template.substitute(**mapping): the pieces are converted from left
\* to right; a stray delimiter raises ValueError, a placeholder without a
\* value raises KeyError.
substitute(template, mapping) ==
    IF template = <<>> THEN Returned(<<>>)
    ELSE LET piece == Head(template)
             rest  == substitute(Tail(template), mapping)
         IN  IF piece.kind = "invalid"
             THEN Raised("ValueError", <<"Invalid placeholder in string">>)
             ELSE IF piece.kind = "named" /\ piece.name \notin DOMAIN mapping
             THEN Raised("KeyError", <<piece.name>>)
             ELSE IF rest.kind = "raise" THEN rest
             ELSE Returned((IF piece.kind = "named" THEN mapping[piece.name]
                            ELSE piece.text) \o rest.value)

\* The defaults joined before the caller's packages.
_generate_dockerfile_defaults_first(template, python_packages) ==
    LET r == substitute(template,
                 "additional_packages" :> Join(<<" ">>, DEFAULT_PYTHON_PACKAGES \o python_packages))
    IN  IF r.kind = "raise" /\ r.error = "ValueError"
        THEN Raised("RuntimeError", <<"Failed to generate Dockerfile">>)
        ELSE r

\* core.AnsibleToolbox._generate_dockerfile: ValueError becomes RuntimeError.
_generate_dockerfile(template, python_packages) ==
    LET r == substitute(template,
                 "additional_packages" :> Join(<<" ">>, python_packages \o DEFAULT_PYTHON_PACKAGES))
    IN  IF r.kind = "raise" /\ r.error = "ValueError"
        THEN Raised("RuntimeError", <<"Failed to generate Dockerfile">>)
        ELSE r

\* __main__.get_dockerfile: only RuntimeError is caught (and turned into the
\* empty text); what substitute raises goes through.
get_dockerfile(template, additional_python_packages) ==
    LET r == substitute(template,
                 "additional_packages" :>
                     Join(<<" ">>, additional_python_packages \o MAIN_DEFAULT_PYTHON_PACKAGES))
    IN  IF r.kind = "raise" /\ r.error = "RuntimeError"
        THEN Returned(<<>>)
        ELSE r

\* tempfile.NamedTemporaryFile(suffix=".dockerfile"), written and flushed.
TmpFile(content) ==
    [kind |-> "file", name |-> <<"/", "tmp", "/", "tmpXXXXXXXX.dockerfile">>, content |-> content]

----------------------------------------------------------------------------
(* The requests the model draws *)

\* Command tokens: a plain word, a file of /proj, the working directory, a
\* file outside /proj named absolutely and one reached through a link, and
\* the path of nothing that exists.
CommandTokens ==
    { <<"ansible-playbook">>, <<"site.yml">>, <<".">>,
      <<"/", "etc", "/", "hosts">>, <<"out", "/", "hosts">>,
      <<"/", "etc", "/", "none">> }

ExtraVolumes == { <<"/", "data", ":", "/", "data">>, <<"-it">> }

ExtraEnvs == { <<"ENV1=value1">>, <<"-c">> }

\* uid and gid of the invoking user.
UserIds == { <<0, 0>>, <<1000, 100>> }

Requests ==
    [ command     : SeqsUpTo(CommandTokens, MaxCommand),
      interactive : BOOLEAN,
      volumes     : SeqsUpTo(ExtraVolumes, MaxExtras),
      envs        : SeqsUpTo(ExtraEnvs, MaxExtras) ]

----------------------------------------------------------------------------
(* The path translator on its own: any text, from any working directory.   *)

launcher == <<pc, DOCKER_BIN, argv, ops, tmp, stdout, stderr, error, exit_code>>

surroundings == <<DOCKERFILE_TEMPLATE, dockerfile, files, again, procs, images>>

vars == <<mode, cwd, ids, path, translated, impl, args, run_args, launcher, surroundings>>

\* The launcher at rest: the values its variables have when only a function
\* is exercised.
Idle ==
    /\ pc = "idle"
    /\ DOCKER_BIN = DockerPath
    /\ argv = None
    /\ ops = <<>>
    /\ tmp = None
    /\ stdout = <<>>
    /\ stderr = <<>>
    /\ error = None
    /\ exit_code = -1

\* The surroundings of a run: the shipped template, the filesystem as it
\* stands, nothing generated and no second call made.
Usual ==
    /\ DOCKERFILE_TEMPLATE = ShippedTemplate
    /\ dockerfile = None
    /\ files = Files
    /\ again = None
    /\ procs = <<>>
    /\ images = {}

InitTranslate ==
    /\ mode = "translate"
    /\ cwd \in WorkDirs
    /\ ids = <<1000, 1000>>
    /\ path \in PathTexts
    /\ translated = None
    /\ impl = "core"
    /\ args = None
    /\ run_args = None
    /\ Idle
    /\ Usual

Translate ==
    /\ mode = "translate"
    /\ translated = None
    /\ translated' = translate_path(cwd, path)
    /\ UNCHANGED <<mode, cwd, ids, path, impl, args, run_args, launcher, surroundings>>

NextTranslate == Translate

SpecTranslate == InitTranslate /\ [][NextTranslate]_vars

----------------------------------------------------------------------------
(* The run-argument assembly on its own: any request, either implementation *)

InitArgs ==
    /\ mode = "args"
    /\ cwd = <<"proj">>
    /\ ids \in UserIds
    /\ path = <<>>
    /\ translated = None
    /\ impl \in {"core", "main"}
    /\ args \in Requests
    /\ run_args = None
    /\ Idle
    /\ Usual

PrepareRunArgs ==
    /\ mode = "args"
    /\ impl = "core"
    /\ run_args = None
    /\ run_args' = prepare_run_args(cwd, ids, DockerPath, args.command,
                                    args.interactive, args.volumes, args.envs)
    /\ UNCHANGED <<mode, cwd, ids, path, translated, impl, args, launcher, surroundings>>

PrepareArguments ==
    /\ mode = "args"
    /\ impl = "main"
    /\ run_args = None
    /\ run_args' = prepare_arguments(cwd, ids, args.command, args.interactive,
                                     args.volumes, args.envs)
    /\ UNCHANGED <<mode, cwd, ids, path, translated, impl, args, launcher, surroundings>>

NextArgs == PrepareRunArgs \/ PrepareArguments

SpecArgs == InitArgs /\ [][NextArgs]_vars

----------------------------------------------------------------------------
(* Dockerfile generation on its own: any package list, any template,       *)
(* either implementation.                                                  *)

PackageChoices == { <<"foo">>, <<"bar==1.0">> }

InitDockerfile ==
    /\ mode = "dockerfile"
    /\ cwd = <<"proj">>
    /\ ids = <<1000, 1000>>
    /\ path = <<>>
    /\ translated = None
    /\ impl \in {"core", "main"}
    /\ args \in [ command     : { <<>> },
                   interactive : { FALSE },
                   volumes     : { <<>> },
                   envs        : { <<>> },
                   additional_python_packages : SeqsUpTo(PackageChoices, MaxPackageList) ]
    /\ run_args = None
    /\ Idle
    /\ DOCKERFILE_TEMPLATE \in Templates
    /\ dockerfile = None
    /\ files = Files
    /\ again = None
    /\ procs = <<>>
    /\ images = {}

GenerateDockerfile ==
    /\ mode = "dockerfile"
    /\ impl = "core"
    /\ dockerfile = None
    /\ dockerfile' = _generate_dockerfile(DOCKERFILE_TEMPLATE, args.additional_python_packages)
    /\ UNCHANGED <<mode, cwd, ids, path, translated, impl, args, run_args, launcher,
                   DOCKERFILE_TEMPLATE, files, again, procs, images>>

GetDockerfile ==
    /\ mode = "dockerfile"
    /\ impl = "main"
    /\ dockerfile = None
    /\ dockerfile' = get_dockerfile(DOCKERFILE_TEMPLATE, args.additional_python_packages)
    /\ UNCHANGED <<mode, cwd, ids, path, translated, impl, args, run_args, launcher,
                   DOCKERFILE_TEMPLATE, files, again, procs, images>>

NextDockerfile == GenerateDockerfile \/ GetDockerfile

SpecDockerfile == InitDockerfile /\ [][NextDockerfile]_vars

----------------------------------------------------------------------------
(* The run-argument assembly called twice with one request, by one user in *)
(* one working directory, while other processes create and remove files.   *)

CallTokens == { <<"ansible-playbook">>, <<"site.yml">>, <<"/", "etc", "/", "none">> }

\* The files other processes may create; they may remove any file.
Creatable == { <<"etc", "none">> }

InitTwice ==
    /\ mode = "twice"
    /\ cwd = <<"proj">>
    /\ ids = <<1000, 100>>
    /\ path = <<>>
    /\ translated = None
    /\ impl \in {"core", "main"}
    /\ args \in [ command     : SeqsUpTo(CallTokens, MaxCallCommand),
                   interactive : BOOLEAN,
                   volumes     : SeqsUpTo({ <<"/", "data", ":", "/", "data">> }, 1),
                   envs        : SeqsUpTo({ <<"ENV1=value1">> }, 1),
                   additional_python_packages : { <<>> } ]
    /\ argv = [shape |-> "ok", help |-> FALSE, request |-> args]
    /\ run_args = None
    /\ pc = "idle"
    /\ DOCKER_BIN = DockerPath
    /\ ops = <<>>
    /\ tmp = None
    /\ stdout = <<>>
    /\ stderr = <<>>
    /\ error = None
    /\ exit_code = -1
    /\ Usual

\* The call takes the front token off the caller's list as it goes.
CallAssemblyConsumes ==
    /\ mode = "twice"
    /\ run_args = None
    /\ run_args' = Assemble(impl, cwd, ids, args)
    /\ args' = [args EXCEPT !.command = IF @ = <<>> THEN @ ELSE Tail(@)]
    /\ UNCHANGED <<mode, cwd, ids, path, translated, impl, launcher, surroundings>>

\* prepare_run_args / prepare_arguments called with the request: the lists
\* handed over are read, never written.
CallAssembly ==
    /\ mode = "twice"
    /\ run_args = None
    /\ run_args' = Assemble(impl, cwd, ids, args)
    /\ UNCHANGED <<mode, cwd, ids, path, translated, impl, args, launcher, surroundings>>

\* Another process creates or removes a file between the two calls.
FilesChange ==
    /\ mode = "twice"
    /\ run_args # None /\ again = None
    /\ \E f \in Files \cup Creatable :
           files' = IF f \in files THEN files \ {f} ELSE files \cup {f}
    /\ UNCHANGED <<mode, cwd, ids, path, translated, impl, args, run_args, launcher,
                   DOCKERFILE_TEMPLATE, dockerfile, again, procs, images>>

\* The same call made again.
CallAssemblyAgain ==
    /\ mode = "twice"
    /\ run_args # None /\ again = None
    /\ again' = Assemble(impl, cwd, ids, args)
    /\ UNCHANGED <<mode, cwd, ids, path, translated, impl, args, run_args, launcher,
                   DOCKERFILE_TEMPLATE, dockerfile, files, procs, images>>

NextTwice == CallAssembly \/ FilesChange \/ CallAssemblyAgain

SpecTwice == InitTwice /\ [][NextTwice]_vars

----------------------------------------------------------------------------
(* The launcher: __main__.main, and core.DockerRunner() followed by        *)
(* core.AnsibleToolbox.run(args).                                          *)

\* shutil.which found nothing.
NoPath == <<>>

RunTokens == { <<"ansible-playbook">>, <<"site.yml">>, <<"/", "etc", "/", "hosts">> }

RunVolumes == { <<"/", "data", ":", "/", "data">> }

RunEnvs == { <<"ENV1=value1">> }

Packages == { <<"foo">> }

RunRequests ==
    [ command     : SeqsUpTo(RunTokens, MaxRunCommand),
      interactive : BOOLEAN,
      volumes     : SeqsUpTo(RunVolumes, MaxRunExtras),
      envs        : SeqsUpTo(RunEnvs, MaxRunExtras),
      additional_python_packages : SeqsUpTo(Packages, MaxPackages) ]

\* What argparse makes of the command line: "ok", every option known and
\* complete; "missing_value", a known option without its value (both parses
\* fail); "unknown_option", an option the parser does not know
\* (parse_known_args passes it over, parse_args fails).
ArgvShapes == { "ok", "missing_value", "unknown_option" }

Argvs == [ shape : ArgvShapes, help : BOOLEAN, request : RunRequests ]

Usage == <<"usage: ansible-toolbox [--at-help] [--at-i] ... [command ...]">>

\* argparse's ArgumentParser.error(message): usage and the message on
\* standard error, then SystemExit(2), which no handler of main catches.
ParserError(message) ==
    /\ stderr' = stderr \o << Usage, <<"error:", " ">> \o message >>
    /\ exit_code' = 2
    /\ pc' = "exited"

\* sys.exit(1) after printing `line` to standard error.
ExitOne(line) ==
    /\ stderr' = Append(stderr, line)
    /\ exit_code' = 1
    /\ pc' = "exited"

\* main's `except Exception`: the traceback and the line, then sys.exit(1).
Unexpected(e) ==
    /\ error' = e
    /\ stderr' = stderr \o << <<"Traceback">>, <<"An unexpected error occurred:", " ">> \o e.message >>
    /\ exit_code' = 1
    /\ pc' = "exited"

\* A run about to start: either launcher, the runtime installed or not, any
\* command line.
Start ==
    /\ mode = "run"
    /\ cwd = <<"proj">>
    /\ ids = <<1000, 100>>
    /\ path = <<>>
    /\ translated = None
    /\ impl \in {"main", "core"}
    /\ args = None
    /\ run_args = None
    /\ pc = "start"
    /\ DOCKER_BIN \in {NoPath, DockerPath}
    /\ argv \in IF impl = "main" THEN Argvs
                ELSE { a \in Argvs : a.shape = "ok" /\ ~a.help }
    /\ ops = <<>>
    /\ tmp = None
    /\ stdout = <<>>
    /\ stderr = <<>>
    /\ error = None
    /\ exit_code = -1

Init == Start /\ Usual

\* The same runs with any of the templates in place of the shipped one.
InitAnyTemplate ==
    /\ Start
    /\ DOCKERFILE_TEMPLATE \in Templates
    /\ dockerfile = None
    /\ files = Files
    /\ again = None
    /\ procs = <<>>
    /\ images = {}

fixed == <<mode, cwd, ids, path, translated, impl, DOCKER_BIN, argv, surroundings>>

(* __main__.main *)

\* main: `if DOCKER_BIN is None`
MainCheckDockerBin ==
    /\ pc = "start" /\ impl = "main"
    /\ IF DOCKER_BIN = NoPath
       THEN /\ ExitOne(<<"Error:", " ", "Docker is not installed or not in PATH">>)
            /\ UNCHANGED <<fixed, args, run_args, ops, tmp, stdout, error>>
       ELSE /\ pc' = "parse_known_args"
            /\ UNCHANGED <<fixed, args, run_args, ops, tmp, stdout, stderr, error, exit_code>>

\* The help branch lost: parsing goes on whatever --at-help says.
MainParseKnownArgsNoHelp ==
    /\ pc = "parse_known_args"
    /\ IF argv.shape = "missing_value"
       THEN /\ ParserError(<<"expected one argument">>)
            /\ UNCHANGED <<fixed, args, run_args, ops, tmp, stdout, error>>
       ELSE /\ pc' = "parse_args"
            /\ UNCHANGED <<fixed, args, run_args, ops, tmp, stdout, stderr, error, exit_code>>

\* main: parser.parse_known_args() and the help branch
MainParseKnownArgs ==
    /\ pc = "parse_known_args"
    /\ IF argv.shape = "missing_value"
       THEN /\ ParserError(<<"expected one argument">>)
            /\ UNCHANGED <<fixed, args, run_args, ops, tmp, stdout, error>>
       ELSE IF argv.help
       THEN /\ stdout' = Append(stdout, Usage)
            /\ exit_code' = 0
            /\ pc' = "exited"
            /\ UNCHANGED <<fixed, args, run_args, ops, tmp, stderr, error>>
       ELSE /\ pc' = "parse_args"
            /\ UNCHANGED <<fixed, args, run_args, ops, tmp, stdout, stderr, error, exit_code>>

\* main: parser.parse_args() and `if not args.command: parser.error(...)`
MainParseArgs ==
    /\ pc = "parse_args"
    /\ IF argv.shape = "unknown_option"
       THEN /\ ParserError(<<"unrecognized arguments">>)
            /\ UNCHANGED <<fixed, args, run_args, ops, tmp, stdout, error>>
       ELSE /\ args' = argv.request
            /\ IF argv.request.command = <<>>
               THEN /\ ParserError(<<"the following arguments are required:", " ", "command">>)
                    /\ UNCHANGED <<fixed, run_args, ops, tmp, stdout, error>>
               ELSE /\ pc' = "check_docker_image"
                    /\ UNCHANGED <<fixed, run_args, ops, tmp, stdout, stderr, error, exit_code>>

\* __main__.check_docker_image: `docker image inspect ansible-toolbox:latest`
MainCheckDockerImage ==
    /\ pc = "check_docker_image"
    /\ \E present \in BOOLEAN :
        /\ ops' = Append(ops, [op |-> "inspect", image |-> <<"ansible-toolbox", ":", "latest">>,
                               present |-> present])
        /\ pc' = IF present THEN "prepare_arguments" ELSE "ensure_docker_image"
    /\ UNCHANGED <<fixed, args, run_args, tmp, stdout, stderr, error, exit_code>>

\* __main__.ensure_docker_image up to the build: the Dockerfile is rendered
\* and written to the temporary file.  A ValueError out of get_dockerfile
\* reaches main's `except ValueError`, anything else, and the RuntimeError
\* for an empty Dockerfile, its `except Exception`.
MainEnsureDockerImage ==
    /\ pc = "ensure_docker_image"
    /\ stdout' = Append(stdout, <<"Ansible Toolbox Docker image not found. Building...">>)
    /\ LET dockerfile_content ==
               get_dockerfile(DOCKERFILE_TEMPLATE, args.additional_python_packages)
       IN  IF dockerfile_content.kind = "raise"
           THEN IF dockerfile_content.error = "ValueError"
                THEN /\ error' = dockerfile_content
                     /\ ExitOne(<<"Error:", " ">> \o dockerfile_content.message)
                     /\ UNCHANGED tmp
                ELSE /\ Unexpected(dockerfile_content)
                     /\ UNCHANGED tmp
           ELSE IF dockerfile_content.value = <<>>
           THEN /\ Unexpected(Raised("RuntimeError", <<"Failed to read Dockerfile from package">>))
                /\ UNCHANGED tmp
           ELSE /\ tmp' = TmpFile(dockerfile_content.value)
                /\ pc' = "build_docker_image"
                /\ UNCHANGED <<stderr, error, exit_code>>
    /\ UNCHANGED <<fixed, args, run_args, ops>>

\* __main__.build_docker_image inside the `with`: subprocess.run(check=True)
\* raises CalledProcessError on a non-zero exit; leaving the `with` removes
\* the temporary file either way.
MainBuildDockerImage ==
    /\ pc = "build_docker_image"
    /\ \E returncode \in {0, 1} :
        /\ ops' = Append(ops, [op |-> "build", image |-> <<"ansible-toolbox", ":", "latest">>,
                               dockerfile_path |-> tmp.name, dockerfile |-> tmp.content,
                               returncode |-> returncode])
        /\ tmp' = None
        /\ IF returncode = 0
           THEN /\ stdout' = stdout \o << <<"Building Docker image...">>,
                                          <<"Ansible Toolbox Docker image built successfully.">> >>
                /\ pc' = "prepare_arguments"
                /\ UNCHANGED <<stderr, error, exit_code>>
           ELSE /\ stdout' = Append(stdout, <<"Building Docker image...">>)
                /\ Unexpected(Raised("CalledProcessError", <<"returned non-zero exit status">>))
    /\ UNCHANGED <<fixed, args, run_args>>

\* main: docker_args = prepare_arguments(...), and `except ValueError`
MainPrepareArguments ==
    /\ pc = "prepare_arguments"
    /\ LET r == prepare_arguments(cwd, ids, args.command, args.interactive,
                                  args.volumes, args.envs)
       IN  /\ run_args' = r
           /\ ops' = Append(ops, [op |-> "prepare"])
           /\ IF r.kind = "raise"
              THEN /\ error' = r
                   /\ ExitOne(<<"Error:", " ">> \o r.message)
              ELSE /\ pc' = "execute"
                   /\ UNCHANGED <<stderr, error, exit_code>>
    /\ UNCHANGED <<fixed, args, tmp, stdout>>

\* __main__.execute: os.execvp(DOCKER_BIN, arguments) replaces the process,
\* or raises OSError, which main's `except Exception` reports.
MainExecute ==
    /\ pc = "execute"
    /\ \E replaced \in BOOLEAN :
        /\ ops' = Append(ops, [op |-> "exec", file |-> DOCKER_BIN, argv |-> run_args.value])
        /\ stdout' = Append(stdout, <<"Executing Docker command:">>)
        /\ IF replaced
           THEN /\ pc' = "replaced"
                /\ UNCHANGED <<stderr, error, exit_code>>
           ELSE Unexpected(Raised("OSError", <<"exec failed">>))
    /\ UNCHANGED <<fixed, args, run_args, tmp>>

(* core.DockerRunner and core.AnsibleToolbox *)

\* The `if not binary` check lost: the runner is built with whatever
\* shutil.which returned.
DockerRunnerInitUnchecked ==
    /\ pc = "start" /\ impl = "core"
    /\ pc' = "run"
    /\ UNCHANGED <<fixed, args, run_args, ops, tmp, stdout, stderr, error, exit_code>>

\* DockerRunner.__init__ / _find_binary
DockerRunnerInit ==
    /\ pc = "start" /\ impl = "core"
    /\ IF DOCKER_BIN = NoPath
       THEN /\ error' = Raised("RuntimeError", <<"Docker is not installed or not in PATH">>)
            /\ pc' = "raised"
       ELSE /\ pc' = "run"
            /\ UNCHANGED error
    /\ UNCHANGED <<fixed, args, run_args, ops, tmp, stdout, stderr, exit_code>>

\* The `if not ...is_image_present` test lost: the image is built whatever
\* the inspection says.
EnsureImageAlwaysBuilds ==
    /\ pc = "run"
    /\ args' = argv.request
    /\ \E present \in BOOLEAN :
        /\ ops' = Append(ops, [op |-> "inspect", image |-> DEFAULT_IMAGE_NAME,
                               present |-> present])
        /\ pc' = "generate_dockerfile"
    /\ UNCHANGED <<fixed, run_args, tmp, stdout, stderr, error, exit_code>>

\* AnsibleToolbox.run(args) entering ensure_image: runner.is_image_present
EnsureImage ==
    /\ pc = "run"
    /\ args' = argv.request
    /\ \E present \in BOOLEAN :
        /\ ops' = Append(ops, [op |-> "inspect", image |-> DEFAULT_IMAGE_NAME,
                               present |-> present])
        /\ pc' = IF present THEN "prepare_run_args" ELSE "generate_dockerfile"
    /\ UNCHANGED <<fixed, run_args, tmp, stdout, stderr, error, exit_code>>

\* ensure_image: the Dockerfile is generated, then written to the temporary
\* file; what _generate_dockerfile raises leaves ensure_image and run before
\* the file is created.
EnsureImageWrite ==
    /\ pc = "generate_dockerfile"
    /\ LET generated == _generate_dockerfile(DOCKERFILE_TEMPLATE, args.additional_python_packages)
       IN  IF generated.kind = "raise"
           THEN /\ error' = generated
                /\ pc' = "raised"
                /\ UNCHANGED tmp
           ELSE /\ tmp' = TmpFile(generated.value)
                /\ pc' = "build_image"
                /\ UNCHANGED error
    /\ UNCHANGED <<fixed, args, run_args, ops, stdout, stderr, exit_code>>

\* The temporary file made to outlive the `with` when the build raises.
BuildImageKeepsFile ==
    /\ pc = "build_image"
    /\ \E returncode \in {0, 1} :
        /\ ops' = Append(ops, [op |-> "build", image |-> DEFAULT_IMAGE_NAME,
                               dockerfile_path |-> tmp.name, dockerfile |-> tmp.content,
                               returncode |-> returncode])
        /\ IF returncode # 0
           THEN /\ error' = Raised("RuntimeError", <<"Failed to build Docker image">>)
                /\ pc' = "raised"
                /\ UNCHANGED tmp
           ELSE /\ pc' = "prepare_run_args"
                /\ tmp' = None
                /\ UNCHANGED error
    /\ UNCHANGED <<fixed, args, run_args, stdout, stderr, exit_code>>

\* The build's failure passed over: the run goes on to the assembly.
BuildImageGoesOn ==
    /\ pc = "build_image"
    /\ \E returncode \in {0, 1} :
        /\ ops' = Append(ops, [op |-> "build", image |-> DEFAULT_IMAGE_NAME,
                               dockerfile_path |-> tmp.name, dockerfile |-> tmp.content,
                               returncode |-> returncode])
        /\ tmp' = None
        /\ pc' = "prepare_run_args"
    /\ UNCHANGED <<fixed, args, run_args, stdout, stderr, error, exit_code>>

\* DockerRunner.build_image inside the `with`: RuntimeError on a non-zero
\* exit; leaving the `with` removes the temporary file either way.
BuildImage ==
    /\ pc = "build_image"
    /\ \E returncode \in {0, 1} :
        /\ ops' = Append(ops, [op |-> "build", image |-> DEFAULT_IMAGE_NAME,
                               dockerfile_path |-> tmp.name, dockerfile |-> tmp.content,
                               returncode |-> returncode])
        /\ tmp' = None
        /\ IF returncode # 0
           THEN /\ error' = Raised("RuntimeError", <<"Failed to build Docker image">>)
                /\ pc' = "raised"
           ELSE /\ pc' = "prepare_run_args"
                /\ UNCHANGED error
    /\ UNCHANGED <<fixed, args, run_args, stdout, stderr, exit_code>>

\* run: run_args = self.runner.prepare_run_args(...)
RunPrepareRunArgs ==
    /\ pc = "prepare_run_args"
    /\ LET r == prepare_run_args(cwd, ids, DOCKER_BIN, args.command, args.interactive,
                                 args.volumes, args.envs)
       IN  /\ run_args' = r
           /\ ops' = Append(ops, [op |-> "prepare"])
           /\ IF r.kind = "raise"
              THEN /\ error' = r
                   /\ pc' = "raised"
              ELSE /\ pc' = "execvp"
                   /\ UNCHANGED error
    /\ UNCHANGED <<fixed, args, tmp, stdout, stderr, exit_code>>

\* run: os.execvp(self.runner.get_binary(), run_args)
RunExecvp ==
    /\ pc = "execvp"
    /\ \E replaced \in BOOLEAN :
        /\ ops' = Append(ops, [op |-> "exec", file |-> DOCKER_BIN, argv |-> run_args.value])
        /\ IF replaced
           THEN /\ pc' = "replaced"
                /\ UNCHANGED error
           ELSE /\ error' = Raised("OSError", <<"exec failed">>)
                /\ pc' = "raised"
    /\ UNCHANGED <<fixed, args, run_args, tmp, stdout, stderr, exit_code>>

Next ==
    \/ MainCheckDockerBin
    \/ MainParseKnownArgs
    \/ MainParseArgs
    \/ MainCheckDockerImage
    \/ MainEnsureDockerImage
    \/ MainBuildDockerImage
    \/ MainPrepareArguments
    \/ MainExecute
    \/ DockerRunnerInit
    \/ EnsureImage
    \/ EnsureImageWrite
    \/ BuildImage
    \/ RunPrepareRunArgs
    \/ RunExecvp

Spec == Init /\ [][Next]_vars

SpecAnyTemplate == InitAnyTemplate /\ [][Next]_vars

----------------------------------------------------------------------------
(* Simultaneous invocations of the tool, each past its startup and its     *)
(* parsing, with one request, user and working directory.  They share the  *)
(* runtime's image store and nothing else: `image inspect` reads it, a     *)
(* successful `build -t` adds the image to it.                             *)

Invocations == 1..MaxInvocations

InitSimultaneous ==
    /\ mode = "simultaneous"
    /\ cwd = <<"proj">>
    /\ ids = <<1000, 100>>
    /\ path = <<>>
    /\ translated = None
    /\ impl \in {"core", "main"}
    /\ args \in { r \in RunRequests : /\ r.command = << <<"ansible-playbook">> >>
                                      /\ r.volumes = <<>> /\ r.envs = <<>> }
    /\ run_args = None
    /\ Idle
    /\ DOCKERFILE_TEMPLATE = ShippedTemplate
    /\ dockerfile = None
    /\ files = Files
    /\ again = None
    /\ procs = [p \in Invocations |->
                   [pc |-> "inspect", ops |-> <<>>, tmp |-> None, run_args |-> None,
                    error |-> None]]
    /\ images \in { {}, {DEFAULT_IMAGE_NAME} }

alone == <<mode, cwd, ids, path, translated, impl, args, run_args, launcher,
           DOCKERFILE_TEMPLATE, dockerfile, files, again>>

\* is_image_present / check_docker_image: `docker image inspect`
InvocationInspect(p) ==
    /\ mode = "simultaneous"
    /\ procs[p].pc = "inspect"
    /\ LET present == DEFAULT_IMAGE_NAME \in images
       IN  procs' = [procs EXCEPT
                        ![p].ops = Append(@, [op |-> "inspect", image |-> DEFAULT_IMAGE_NAME,
                                              present |-> present]),
                        ![p].pc = IF present THEN "prepare" ELSE "generate"]
    /\ UNCHANGED <<alone, images>>

\* ensure_image / ensure_docker_image up to the build: the Dockerfile is
\* rendered and written to the invocation's own temporary file.
InvocationWrite(p) ==
    /\ mode = "simultaneous"
    /\ procs[p].pc = "generate"
    /\ LET generated ==
               IF impl = "core"
               THEN _generate_dockerfile(DOCKERFILE_TEMPLATE, args.additional_python_packages)
               ELSE get_dockerfile(DOCKERFILE_TEMPLATE, args.additional_python_packages)
       IN  IF generated.kind = "raise"
           THEN procs' = [procs EXCEPT ![p].pc = "failed", ![p].error = generated]
           ELSE IF impl = "main" /\ generated.value = <<>>
           THEN procs' = [procs EXCEPT
                             ![p].pc = "failed",
                             ![p].error = Raised("RuntimeError",
                                                 <<"Failed to read Dockerfile from package">>)]
           ELSE procs' = [procs EXCEPT ![p].pc = "build",
                                       ![p].tmp = TmpFile(generated.value)]
    /\ UNCHANGED <<alone, images>>

\* A lock held around a second look at the store: the build is left out when
\* another invocation has built the image in the meantime.
InvocationBuildLocked(p) ==
    /\ mode = "simultaneous"
    /\ procs[p].pc = "build"
    /\ IF DEFAULT_IMAGE_NAME \in images
       THEN /\ procs' = [procs EXCEPT ![p].tmp = None, ![p].pc = "prepare"]
            /\ UNCHANGED images
       ELSE \E returncode \in {0, 1} :
            /\ procs' = [procs EXCEPT
                            ![p].ops = Append(@, [op |-> "build", image |-> DEFAULT_IMAGE_NAME,
                                                  dockerfile_path |-> procs[p].tmp.name,
                                                  dockerfile |-> procs[p].tmp.content,
                                                  returncode |-> returncode]),
                            ![p].tmp = None,
                            ![p].pc = IF returncode = 0 THEN "prepare" ELSE "failed",
                            ![p].error = IF returncode = 0 THEN None
                                         ELSE Raised("RuntimeError",
                                                     <<"Failed to build Docker image">>)]
            /\ images' = IF returncode = 0 THEN images \cup {DEFAULT_IMAGE_NAME} ELSE images
    /\ UNCHANGED alone

\* build_image / build_docker_image inside the `with`: `docker build -t`;
\* on success the image is in the store.
InvocationBuild(p) ==
    /\ mode = "simultaneous"
    /\ procs[p].pc = "build"
    /\ \E returncode \in {0, 1} :
        /\ procs' = [procs EXCEPT
                        ![p].ops = Append(@, [op |-> "build", image |-> DEFAULT_IMAGE_NAME,
                                              dockerfile_path |-> procs[p].tmp.name,
                                              dockerfile |-> procs[p].tmp.content,
                                              returncode |-> returncode]),
                        ![p].tmp = None,
                        ![p].pc = IF returncode = 0 THEN "prepare" ELSE "failed",
                        ![p].error =
                            IF returncode = 0 THEN None
                            ELSE IF impl = "core"
                            THEN Raised("RuntimeError", <<"Failed to build Docker image">>)
                            ELSE Raised("CalledProcessError",
                                        <<"returned non-zero exit status">>)]
        /\ images' = IF returncode = 0 THEN images \cup {DEFAULT_IMAGE_NAME} ELSE images
    /\ UNCHANGED alone

\* prepare_run_args / prepare_arguments
InvocationPrepare(p) ==
    /\ mode = "simultaneous"
    /\ procs[p].pc = "prepare"
    /\ LET r == Assemble(impl, cwd, ids, args)
       IN  procs' = [procs EXCEPT
                        ![p].ops = Append(@, [op |-> "prepare"]),
                        ![p].run_args = r,
                        ![p].pc = IF r.kind = "raise" THEN "failed" ELSE "exec",
                        ![p].error = IF r.kind = "raise" THEN r ELSE None]
    /\ UNCHANGED <<alone, images>>

\* os.execvp: the invocation is replaced by the runtime, or OSError
InvocationExec(p) ==
    /\ mode = "simultaneous"
    /\ procs[p].pc = "exec"
    /\ \E replaced \in BOOLEAN :
        procs' = [procs EXCEPT
                     ![p].ops = Append(@, [op |-> "exec", file |-> DOCKER_BIN,
                                           argv |-> procs[p].run_args.value]),
                     ![p].pc = IF replaced THEN "replaced" ELSE "failed",
                     ![p].error = IF replaced THEN None
                                  ELSE Raised("OSError", <<"exec failed">>)]
    /\ UNCHANGED <<alone, images>>

NextSimultaneous ==
    \/ \E p \in Invocations : InvocationInspect(p)
    \/ \E p \in Invocations : InvocationWrite(p)
    \/ \E p \in Invocations : InvocationBuild(p)
    \/ \E p \in Invocations : InvocationPrepare(p)
    \/ \E p \in Invocations : InvocationExec(p)

SpecSimultaneous == InitSimultaneous /\ [][NextSimultaneous]_vars

\* The operations performed so far, by name.
OpNames == [i \in 1..Len(ops) |-> ops[i].op]

\* The run is over: main exited, run raised, or the process was replaced.
Finished == pc \in {"exited", "raised", "replaced"}

----------------------------------------------------------------------------
(* C1: translate_path(p) returns "/workspace" followed by p's components   *)
(* below the working directory whenever p's resolved form is the working   *)
(* directory or lies below it, and raises the ValueError naming p          *)
(* otherwise.                                                              *)

C1_TranslateContract ==
    translated # None =>
        LET resolved == Resolve(cwd, path)
        IN  IF IsPrefix(cwd, resolved)
            THEN /\ translated.kind = "return"
                 /\ PathOf(translated.value).absolute
                 /\ StrAbs(PathOf(translated.value).parts) = translated.value
                 /\ Head(PathOf(translated.value).parts) = "workspace"
                 /\ cwd \o Tail(PathOf(translated.value).parts) = resolved
            ELSE /\ translated.kind = "raise"
                 /\ translated.error = "ValueError"
                 /\ IsPrefix(<<"Path", " ">> \o path, translated.message)

\* Both cases of C1 have happened: a path below the working directory was
\* translated, or a path outside it was refused.
C1_Witness ==
    /\ translated # None
    /\ translated.kind = "return"
    /\ Len(translated.value) > 2
    /\ Exists(cwd, path)

----------------------------------------------------------------------------
(* C2: translate_path of the working directory itself, however it is       *)
(* written, is exactly "/workspace": no trailing separator, no "."         *)
(* component.                                                              *)

C2_CwdIsWorkspace ==
    (translated # None /\ Resolve(cwd, path) = cwd) =>
        translated = Returned(<<"/", "workspace">>)

\* The working directory, given by its absolute path, has been translated.
C2_Witness ==
    /\ translated # None
    /\ path = StrAbs(cwd)
    /\ translated.kind = "return"

----------------------------------------------------------------------------
(* C3: a non-interactive invocation whose command holds an existing path   *)
(* that resolves outside the working directory never reaches the exec and  *)
(* never gets an argument list assembled; it ends with the                 *)
(* path-outside-workspace error, unless the image step, which runs first,  *)
(* has already failed with the build error.                                *)

OutsideToken(tok) ==
    Exists(cwd, tok) /\ ~IsPrefix(Resolve(cwd, StrAbs(cwd)), Resolve(cwd, tok))

HasOutsideToken(command) == \E i \in 1..Len(command) : OutsideToken(command[i])

FirstOutsideToken(command) ==
    command[CHOOSE i \in 1..Len(command) :
                OutsideToken(command[i]) /\ \A k \in 1..(i - 1) : ~OutsideToken(command[k])]

PathOutsideWorkspace(tok) ==
    Raised("ValueError", <<"Path", " ">> \o tok \o <<" ", OutsideMessage>>)

EscapingRun == args # None /\ ~args.interactive /\ HasOutsideToken(args.command)

----------------------------------------------------------------------------
(* C4: the arguments DockerRunner.prepare_run_args builds for an           *)
(* interactive request hold "-it", hold no "-c" and end with "/bin/sh";    *)
(* those it builds for a non-interactive request hold no "-it" and end     *)
(* with "-c" and a script that begins with "cd /workspace && ".            *)

Built == run_args # None /\ run_args.kind = "return"

\* C4: the shape of the list by mode, for DockerRunner.prepare_run_args.
C4_ModeShape ==
    (Built /\ impl = "core") =>
        LET a == run_args.value
        IN  IF args.interactive
            THEN /\ ~Contains(a, <<"-c">>)
                 /\ Contains(a, <<"-it">>)
                 /\ Last(a) = BinSh
            ELSE /\ ~Contains(a, <<"-it">>)
                 /\ a[Len(a) - 1] = <<"-c">>
                 /\ a[Len(a) - 2] = BinSh
                 /\ IsPrefix(<<"cd", " ", "/", "workspace", " ", "&&", " ">>, Last(a))
                 /\ Cardinality({ i \in 1..Len(a) : a[i] = <<"-c">> }) = 1

\* An interactive request that carries a command and extras has been assembled.
C4_Witness ==
    /\ Built /\ impl = "core"
    /\ args.interactive
    /\ args.command # <<>>
    /\ args.volumes # <<>> /\ args.envs # <<>>

----------------------------------------------------------------------------
(* C5: the extra volumes and environment variables appear one entry per    *)
(* item, in the order supplied and with duplicates kept, after the whole   *)
(* fixed block and before the image name; everything else is what the same *)
(* request without extras produces.                                        *)

ImageAt(a) == CHOOSE i \in 1..Len(a) : a[i] = DEFAULT_IMAGE_NAME

\* Entry i of the extras of one kind, as the implementation writes entries:
\* core one element "-v x", __main__ the two elements "-v", "x".
EntryOf(flag, x) == IF impl = "core" THEN << <<flag, " ">> \o x >> ELSE << <<flag>>, x >>

EntryLen == IF impl = "core" THEN 1 ELSE 2

\* C5: extras in order, duplicates kept, between the fixed block and the image.
C5_ExtrasAppended ==
    Built =>
        LET a    == run_args.value
            bare == Assemble(impl, cwd, ids, [args EXCEPT !.volumes = <<>>, !.envs = <<>>]).value
            n    == ImageAt(bare) - 1
            nv   == Len(args.volumes)
            ne   == Len(args.envs)
        IN  /\ Len(a) = Len(bare) + EntryLen * (nv + ne)
            /\ SubSeq(a, 1, n) = SubSeq(bare, 1, n)
            /\ \A i \in 1..nv :
                   SubSeq(a, n + EntryLen * (i - 1) + 1, n + EntryLen * i)
                       = EntryOf("-v", args.volumes[i])
            /\ \A j \in 1..ne :
                   SubSeq(a, n + EntryLen * (nv + j - 1) + 1, n + EntryLen * (nv + j))
                       = EntryOf("-e", args.envs[j])
            /\ SubSeq(a, n + EntryLen * (nv + ne) + 1, Len(a)) = SubSeq(bare, n + 1, Len(bare))
            /\ a[n + EntryLen * (nv + ne) + 1] = DEFAULT_IMAGE_NAME

\* A request with the same volume twice and two different variables has been
\* assembled.
C5_Witness ==
    /\ Built
    /\ Len(args.volumes) = 2 /\ args.volumes[1] = args.volumes[2]
    /\ Len(args.envs) = 2 /\ args.envs[1] # args.envs[2]

----------------------------------------------------------------------------
(* C6: every argument list produced carries the fixed security posture:    *)
(* the three dropped capabilities, no-new-privileges, host networking, the *)
(* invoking user's uid:gid, the four host mounts, the working directory    *)
(* read-only at /workspace, HOME=/tmp and TERM=xterm-256color.             *)

HasPair(a, x, y) == \E i \in 1..(Len(a) - 1) : a[i] = <<x>> /\ a[i + 1] = y

\* C6: each flag/value pair of the security posture is in every list built.
C6_SecurityPosture ==
    Built =>
        LET a == run_args.value
        IN  /\ HasPair(a, "--cap-drop", <<"NET_BIND_SERVICE">>)
            /\ HasPair(a, "--cap-drop", <<"SETUID">>)
            /\ HasPair(a, "--cap-drop", <<"SETGID">>)
            /\ HasPair(a, "--security-opt", <<"no-new-privileges">>)
            /\ HasPair(a, "--network", <<"host">>)
            /\ HasPair(a, "--user", <<ToString(ids[1]), ":", ToString(ids[2])>>)
            /\ HasPair(a, "-v", <<"/", "etc", "/", "passwd", ":", "/", "etc", "/", "passwd", ":", "ro,z">>)
            /\ HasPair(a, "-v", <<"/", "etc", "/", "group", ":", "/", "etc", "/", "group", ":", "ro,z">>)
            /\ HasPair(a, "-v", <<"/", "tmp", ":", "/", "tmp", ":", "z">>)
            /\ HasPair(a, "-v", <<"/", "var", "/", "tmp", ":", "/", "var", "/", "tmp", ":", "z">>)
            /\ HasPair(a, "-v", StrAbs(cwd) \o <<":", "/", "workspace", ":", "ro,z">>)
            /\ HasPair(a, "-e", <<"HOME=", "/", "tmp">>)
            /\ HasPair(a, "-e", <<"TERM=xterm-256color">>)

\* A non-interactive request with extras, run by an unprivileged user, has
\* been assembled by __main__.
C6_Witness ==
    /\ Built /\ impl = "main"
    /\ ~args.interactive
    /\ args.volumes # <<>> /\ args.envs # <<>>
    /\ ids[1] # 0

----------------------------------------------------------------------------
(* C7: an empty command is rejected before any container operation exactly *)
(* when no interactive session was requested; an interactive request with  *)
(* an empty command goes on to the container operations.                   *)

Rejected == pc = "exited" /\ exit_code > 0 /\ ops = <<>>

\* C7: for main, an empty command is rejected iff the run is not interactive.
C7_EmptyCommandRejectedIffNotInteractive ==
    (impl = "main" /\ Finished /\ args # None /\ args.command = <<>>) =>
        (Rejected <=> ~args.interactive)

----------------------------------------------------------------------------
(* C8: no command and no --at-help ends the process with exit code 1 and a *)
(* message on standard error that mentions "command".                      *)

MentionsCommand == \E i \in 1..Len(stderr) : Contains(stderr[i], "command")

\* C8: main without a command exits 1 with "command" on standard error.
C8_NoCommandExitsOne ==
    (impl = "main" /\ pc = "exited" /\ ~argv.help /\ args # None /\ args.command = <<>>) =>
        (exit_code = 1 /\ MentionsCommand)

----------------------------------------------------------------------------
(* C9: every error outcome of main ends the process with exit code 1 after *)
(* the error was reported; exit code 0 only when help was displayed (a     *)
(* successful run is replaced by the runtime and never exits here).        *)

C9_ErrorsExitOne ==
    (impl = "main" /\ pc = "exited" /\ argv.shape = "ok") =>
        IF stderr = <<>>
        THEN exit_code = 0 /\ argv.help /\ Contains(stdout, Usage)
        ELSE exit_code = 1

----------------------------------------------------------------------------
(* C10: with --at-help no image inspection, build, argument assembly or    *)
(* exec is ever performed; provided the runtime binary was found and no    *)
(* option of the command line lacks its value, usage is printed and the    *)
(* process exits with code 0, whether or not a command was supplied.       *)

\* C10 as first stated: every --at-help invocation prints usage and exits 0.
C10_HelpAlwaysExitsZero ==
    (impl = "main" /\ argv.help /\ Finished) =>
        /\ exit_code = 0
        /\ Contains(stdout, Usage)
        /\ ops = <<>>

\* C10, as amended: --at-help never touches the runtime, and exits 0 with
\* usage when the binary was found and every option has its value.
C10_HelpExitsZero ==
    (impl = "main" /\ argv.help) =>
        /\ ops = <<>>
        /\ run_args = None
        /\ pc \in {"start", "parse_known_args", "exited"}
        /\ (pc = "exited" /\ DOCKER_BIN # NoPath /\ argv.shape # "missing_value") =>
               /\ exit_code = 0
               /\ stdout = <<Usage>>
               /\ stderr = <<>>

\* Help was displayed for a command line that holds no command, and for one
\* that holds one the parser would refuse.
C10_Witness ==
    /\ impl = "main" /\ argv.help /\ pc = "exited" /\ exit_code = 0
    /\ argv.request.command = <<>>
    /\ argv.shape = "unknown_option"

----------------------------------------------------------------------------
(* C11: when the container runtime's executable is not on the search path  *)
(* the run fails at startup, DockerRunner() with the RuntimeError "Docker  *)
(* is not installed or not in PATH", main with that message on standard    *)
(* error and exit code 1, and no image inspection, build, argument         *)
(* assembly or exec is performed in that run.                              *)

NotInstalled == Raised("RuntimeError", <<"Docker is not installed or not in PATH">>)

----------------------------------------------------------------------------
(* C12: ensuring the image inspects the default image exactly once; the    *)
(* build is invoked, once, with the temporary Dockerfile's path and the    *)
(* default image name, exactly when that inspection reported the image     *)
(* absent, and never when it reported it present.                          *)

Inspections == { i \in 1..Len(ops) : ops[i].op = "inspect" }

Builds == { i \in 1..Len(ops) : ops[i].op = "build" }

\* The image-ensuring step is running: the Dockerfile is about to be rendered
\* or built.
Ensuring ==
    pc \in {"ensure_docker_image", "build_docker_image", "generate_dockerfile", "build_image"}

\* The image-ensuring step has been entered and left.
Ensured == Inspections # {} /\ ~Ensuring

\* The Dockerfile the launcher at hand renders for the request.
Rendered ==
    IF impl = "core"
    THEN _generate_dockerfile(DOCKERFILE_TEMPLATE, args.additional_python_packages)
    ELSE get_dockerfile(DOCKERFILE_TEMPLATE, args.additional_python_packages)

\* C12: one inspection of the default image; one build, of the temporary
\* Dockerfile, iff the inspection found the image absent.
C12_BuildIffAbsent ==
    /\ Cardinality(Inspections) <= 1
    /\ Cardinality(Builds) <= 1
    /\ \A i \in Inspections : i = 1 /\ ops[i].image = DEFAULT_IMAGE_NAME
    /\ \A b \in Builds :
        /\ b = 2 /\ ops[1].op = "inspect" /\ ~ops[1].present
        /\ ops[b].image = DEFAULT_IMAGE_NAME
        /\ ops[b].dockerfile_path = TmpFile(<<>>).name
        /\ ops[b].dockerfile = Rendered.value
    /\ Ensured => (Builds # {} <=> ~ops[1].present)
    /\ (Ensuring \/ Ensured) => Cardinality(Inspections) = 1

\* The image was found absent and built, with a package added, and the run
\* has moved on to the assembly.
C12_Witness ==
    /\ Ensured /\ ~ops[1].present /\ Builds = {2}
    /\ ops[2].returncode = 0
    /\ args.additional_python_packages # <<>>
    /\ pc \in {"prepare_run_args", "prepare_arguments"}

----------------------------------------------------------------------------
(* C13: when the runtime's build command exits non-zero the build fails    *)
(* with the RuntimeError "Failed to build Docker image", no second build   *)
(* is attempted and neither the assembly nor the exec is reached.          *)

ImageBuildFailed == Raised("RuntimeError", <<"Failed to build Docker image">>)

BuildFailed == \E b \in Builds : ops[b].returncode # 0

\* C13: a failed build ends the run with the image-build-failed error, after
\* one build and before any assembly or exec.
C13_BuildFailureIsImageBuildFailed ==
    BuildFailed =>
        /\ error = ImageBuildFailed
        /\ Cardinality(Builds) = 1
        /\ ~Contains(OpNames, "prepare")
        /\ ~Contains(OpNames, "exec")
        /\ Finished

----------------------------------------------------------------------------
(* C14: the temporary Dockerfile exists only inside the image-ensuring     *)
(* step, between its writing and the end of the build; once the step has   *)
(* ended, with the image built, the build failed or the generation failed, *)
(* it is gone, and so it is at the exec and when the process ends.         *)

GenerationFailed ==
    /\ Ensured /\ ~ops[1].present /\ Builds = {}
    /\ Finished

\* C14: no temporary Dockerfile outside the build, on any way out of the step.
C14_TemporaryFileRemoved ==
    /\ tmp # None => pc \in {"build_image", "build_docker_image"}
    /\ Ensured => tmp = None
    /\ Finished => tmp = None
    /\ Contains(OpNames, "exec") => tmp = None
    /\ GenerationFailed => (tmp = None /\ error # None)

\* A build of a written Dockerfile has failed and the run has ended.
C14_Witness ==
    /\ BuildFailed /\ Finished
    /\ ops[2].dockerfile # <<>>
    /\ tmp = None

----------------------------------------------------------------------------
(* C15: the Dockerfile rendered from the shipped template is the           *)
(* template's text with, at its one placeholder, the caller's packages in  *)
(* the order given followed by the default packages in their order, each   *)
(* preceded by one blank; it is determined by the package list.            *)

RECURSIVE Spaced(_)
\* Each text of the list preceded by one blank.
Spaced(texts) ==
    IF texts = <<>> THEN <<>> ELSE <<" ">> \o Head(texts) \o Spaced(Tail(texts))

\* C15: caller's packages first and in order, then the defaults, at the
\* single placeholder of the shipped template.
C15_PackagesThenDefaults ==
    (dockerfile # None /\ DOCKERFILE_TEMPLATE = ShippedTemplate) =>
        LET packages == args.additional_python_packages
            defaults == IF impl = "core" THEN DEFAULT_PYTHON_PACKAGES
                        ELSE MAIN_DEFAULT_PYTHON_PACKAGES
        IN  /\ dockerfile = Returned(<<TemplateHead>> \o Spaced(packages \o defaults)
                                        \o <<" ", TemplateTail>>)
            /\ Cardinality({ i \in 1..Len(ShippedTemplate) :
                               ShippedTemplate[i].kind = "named" }) = 1
            /\ (impl = "core" /\ packages = << <<"foo">> >>) =>
                   dockerfile.value = <<TemplateHead, " ", "foo", " ", "requests==2.32.3",
                                        " ", "docker==7.1.0", " ", TemplateTail>>

\* _generate_dockerfile has rendered a list of three packages, the first two
\* different and the third the first again.
C15_Witness ==
    /\ dockerfile # None /\ dockerfile.kind = "return"
    /\ DOCKERFILE_TEMPLATE = ShippedTemplate /\ impl = "core"
    /\ Len(args.additional_python_packages) = 3
    /\ args.additional_python_packages[1] # args.additional_python_packages[2]
    /\ args.additional_python_packages[1] = args.additional_python_packages[3]

----------------------------------------------------------------------------
(* C16: whenever the substitution of the template fails, the generation    *)
(* raises the RuntimeError "Failed to generate (the) Dockerfile", and      *)
(* nothing else.                                                           *)

\* The template holds a stray delimiter or a placeholder other than the one
\* the code passes a value for.
SubstitutionFails ==
    \E i \in 1..Len(DOCKERFILE_TEMPLATE) :
        \/ DOCKERFILE_TEMPLATE[i].kind = "invalid"
        \/ /\ DOCKERFILE_TEMPLATE[i].kind = "named"
           /\ DOCKERFILE_TEMPLATE[i].name # "additional_packages"

\* C16: a failed substitution surfaces as the Dockerfile-generation-failed
\* RuntimeError.
C16_SubstitutionFailureIsGenerationFailed ==
    (dockerfile # None /\ SubstitutionFails) =>
        /\ dockerfile.kind = "raise"
        /\ dockerfile.error = "RuntimeError"
        /\ dockerfile.message \in { <<"Failed to generate Dockerfile">>,
                                    <<"Failed to generate the Dockerfile">> }

----------------------------------------------------------------------------
(* C17: the script of a non-interactive run is "cd /workspace && "         *)
(* followed by the command's tokens, as many and in the same order, joined *)
(* by single blanks, each token that is an existing path replaced by its   *)
(* translation and every other token unchanged.                            *)

CdWorkspace == <<"cd", " ", "/", "workspace", " ", "&&", " ">>

\* C17: the script is the prefix and the tokens, existing paths translated.
C17_ScriptTranslatesExistingPaths ==
    (Built /\ ~args.interactive) =>
        LET script == Last(run_args.value)
            token(i) == IF Exists(cwd, args.command[i])
                        THEN translate_path(cwd, args.command[i]).value
                        ELSE args.command[i]
        IN  /\ script = CdWorkspace
                          \o Join(<<" ">>, [i \in 1..Len(args.command) |-> token(i)])
            /\ args.command = << <<"ansible-playbook">>, <<"site.yml">> >> =>
                   script = CdWorkspace \o <<"ansible-playbook", " ",
                                             "/", "workspace", "/", "site.yml">>
            /\ \A i \in 1..Len(args.command) :
                   ~Exists(cwd, args.command[i]) =>
                       \E k \in 1..Len(script) :
                           SubSeq(script, k, k + Len(args.command[i]) - 1) = args.command[i]

\* The script of a command made of the path of a file of the workspace and
\* the path of nothing that exists has been built.
C17_Witness ==
    /\ Built /\ ~args.interactive
    /\ args.command = << <<"site.yml">>, <<"/", "etc", "/", "none">> >>
    /\ Last(run_args.value) = CdWorkspace \o <<"/", "workspace", "/", "site.yml", " ",
                                               "/", "etc", "/", "none">>

----------------------------------------------------------------------------
(* C18: every argument list begins with the path of the runtime binary     *)
(* found on the search path, then "run"; the third element of an           *)
(* interactive run's list is "-it".                                        *)

\* C18: the located binary's path, "run", and "-it" when interactive.
C18_BinaryPathThenRun ==
    Built =>
        /\ run_args.value[1] = DOCKER_BIN
        /\ run_args.value[2] = <<"run">>
        /\ args.interactive => run_args.value[3] = <<"-it">>

----------------------------------------------------------------------------
(* C19: a run inspects the image, builds it if it is absent, assembles the *)
(* arguments and execs, in that order; the exec happens at most once, is   *)
(* the last operation, and is given the runtime binary and the very list   *)
(* the assembly returned; after a failed image step neither the assembly   *)
(* nor the exec takes place.                                               *)

----------------------------------------------------------------------------
(* C20: two calls of the assembly with the same request, by the same user  *)
(* in the same working directory, return the same list provided the host's *)
(* files are the same at both calls (an interactive request's list never   *)
(* depends on them); the call leaves the request's lists as they were.     *)

----------------------------------------------------------------------------
(* C21: the containment check is made on where the token really is, with   *)
(* ".." components and symbolic links resolved: an existing token that     *)
(* resolves outside the working directory is refused with the              *)
(* path-outside-workspace error however it is written, and one that        *)
(* resolves inside it is translated to "/workspace" followed by its        *)
(* canonical components below the working directory.                       *)

\* Where the kernel finds the existing path `text`: its canonical location.
LocationOf(text) ==
    LET p == PathOf(text)
    IN  Walk(IF p.absolute THEN <<>> ELSE cwd, p.parts)[2]

\* The text is written as a path under the working directory: relative, and
\* not beginning with "..".
WrittenUnderCwd(text) ==
    /\ ~PathOf(text).absolute
    /\ PathOf(text).parts # <<>>
    /\ Head(PathOf(text).parts) # ".."

\* C21: an existing token is translated or refused by its canonical location.
C21_ContainmentOnCanonicalForm ==
    /\ (translated # None /\ Exists(cwd, path)) =>
        LET at == LocationOf(path)
        IN  IF IsPrefix(cwd, at)
            THEN translated =
                     Returned(StrAbs(<<"workspace">> \o SubSeq(at, Len(cwd) + 1, Len(at))))
            ELSE translated = PathOutsideWorkspace(path)
    /\ (translated # None /\ cwd = <<"proj">>
            /\ path = <<"roles", "/", "..", "/", "site.yml">>) =>
        translated = Returned(<<"/", "workspace", "/", "site.yml">>)

\* A token written under the working directory that passes through a link
\* and a ".." and ends outside it has been refused.
C21_Witness ==
    /\ translated # None /\ Exists(cwd, path)
    /\ WrittenUnderCwd(path)
    /\ Contains(path, "..") /\ Contains(path, "out")
    /\ ~IsPrefix(cwd, LocationOf(path))
    /\ translated = PathOutsideWorkspace(path)

----------------------------------------------------------------------------
(* C23: for an interactive request the command's tokens are neither        *)
(* translated nor checked: the assembly always returns a list, never the   *)
(* path-outside-workspace error, and the list is the one the same request  *)
(* with no command at all gets, whatever the command holds.                *)

\* C23: an interactive assembly returns, and its list ignores the command.
C23_InteractiveIgnoresCommand ==
    (run_args # None /\ args.interactive) =>
        /\ run_args.kind = "return"
        /\ run_args = Assemble(impl, cwd, ids, [args EXCEPT !.command = <<>>])
        /\ \A i \in 1..Len(args.command) : ~Contains(run_args.value, args.command[i])
        /\ Last(run_args.value) = BinSh

\* The list of an interactive request whose command names an existing file
\* outside the working directory has been assembled.
C23_Witness ==
    /\ run_args # None /\ args.interactive
    /\ HasOutsideToken(args.command)
    /\ Contains(args.command, <<"/", "etc", "/", "hosts">>)
    /\ run_args.kind = "return"

----------------------------------------------------------------------------
(* C22: invocations running at the same time do not coordinate: each one   *)
(* that found the image absent builds it, whatever the others have done    *)
(* since, so two of them may both build the same image name; a single      *)
(* invocation builds at most once.                                         *)

BuildsOf(p) == { i \in 1..Len(procs[p].ops) : procs[p].ops[i].op = "build" }

\* Invocation p has left the image-ensuring step.
EnsuredBy(p) == procs[p].ops # <<>> /\ procs[p].pc \notin {"generate", "build"}

\* C22: every invocation builds once if it saw the image absent and never
\* otherwise, without regard to the other invocations.
C22_NoCoordination ==
    \A p \in DOMAIN procs :
        /\ Cardinality(BuildsOf(p)) <= 1
        /\ \A b \in BuildsOf(p) :
            /\ procs[p].ops[1].op = "inspect" /\ ~procs[p].ops[1].present
            /\ procs[p].ops[b].image = DEFAULT_IMAGE_NAME
        /\ EnsuredBy(p) => (BuildsOf(p) # {} <=> ~procs[p].ops[1].present)

\* Two invocations that both found the image absent have both built it, and
\* both builds succeeded.
C22_Witness ==
    /\ 1 \in DOMAIN procs /\ 2 \in DOMAIN procs
    /\ \A p \in {1, 2} :
        /\ Len(procs[p].ops) >= 2
        /\ ~procs[p].ops[1].present
        /\ \E b \in BuildsOf(p) :
            /\ procs[p].ops[b].image = DEFAULT_IMAGE_NAME
            /\ procs[p].ops[b].returncode = 0
    /\ DEFAULT_IMAGE_NAME \in images

====
